---- MODULE Spec2Model ----
(***************************************************************************)
(* Escrow ledger and trade lifecycle of the P2P backend (the Express       *)
(* server of src/unnamed/part_002 over the PostgreSQL wrapper src/src/db.js)*)
(*                                                                         *)
(* Every db.prepare(...).get/run goes to pool.query (db.js 49-88): each    *)
(* SQL statement runs on its own pooled connection and commits by itself.  *)
(* db.transaction (db.js 100-113) sends BEGIN/COMMIT/ROLLBACK on a client  *)
(* that the callback never uses, so it groups nothing.  A handler is       *)
(* therefore modelled as a request that advances one SQL statement at a    *)
(* time; requests of different callers interleave between statements.      *)
(* Consecutive SELECTs of one handler are taken as one snapshot, and an    *)
(* INSERT INTO internal_transfers (a table no handler reads) is taken      *)
(* together with the balance UPDATE it follows.                            *)
(*                                                                         *)
(* Numbers.  All quantities are integers counted in units of 10^-10 FDA.   *)
(* NUMERIC(20,8) columns (offers.amount, offers.remaining, trades.amount,  *)
(* trades.fee_amount) hold multiples of Q = 100 units and round on store;  *)
(* NUMERIC(30,18) columns (internal_balances.fda_balance,                  *)
(* internal_transfers.amount) hold every value that arises here exactly.   *)
(* trades.fee_rate, NUMERIC(10,6), is counted in millionths.               *)
(***************************************************************************)
EXTENDS Integers, Sequences, FiniteSets, Bags, TLC

\* ---------------------------------------------------------------- bounds
\* Spec: requests of several callers in flight at once
MaxSlots == 2
MaxOffers == 1
MaxTrades == 1
MaxFund == 1
MaxTransfers == 1
MaxPayouts == 2
MaxFails == 1

\* ------------------------------------------------------ program constants
\* one step of a NUMERIC(20,8) column, in model units
Q == 100
\* trades.fee_rate is NUMERIC(10,6): one percent, in millionths
PercentMicro == 10000
\* parseFloat(trade.fee_rate) || 0.01 in the dispute release, in millionths
FallbackFeeRate == 10000
\* defaultSettings: p2p_fee_rate '1', holding_fda_amount '0'
DefaultFeeRatePercent == 1
DefaultHoldingAmount == 0

Traders == {1, 2}
Admin == 3
Users == Traders \cup {Admin}

\* ------------------------------------------------------------ the store
VARIABLES
    balances,   \* internal_balances.fda_balance per user (no row reads as 0)
    offers,     \* offers table, id = index
    trades,     \* trades table, id = index
    disputes,   \* disputes table, id = index, trade_id UNIQUE
    transfers,  \* internal_transfers rows, as a bag
    settings,   \* settings table: p2p_fee_rate (percent), holding_fda_amount
    reqs,       \* the requests in flight (a bag): handler, position and locals
    resp,       \* HTTP status of the response sent last
    funded,     \* total credited by the funding endpoints so far
    holdings,   \* fda_holdings rows: user, amount, expires_at
    now,        \* the clock the handlers read (new Date()), in minutes
    failed      \* number of requests that a storage failure has ended

vars == <<balances, offers, trades, disputes, transfers, settings, reqs, resp,
          funded, holdings, now, failed>>

Req(op, pc, actor, id, amt, aux, act) ==
    [op |-> op, pc |-> pc, actor |-> actor, id |-> id, amt |-> amt, aux |-> aux,
     act |-> act, out |-> "none"]

\* ---------------------------------------------------------- conversions
\* PostgreSQL rounds a numeric to the column's scale, half away from zero.
RoundTo(x, step) ==
    IF x >= 0 THEN ((x + step \div 2) \div step) * step
    ELSE -((((-x) + step \div 2) \div step) * step)

\* value stored by a NUMERIC(20,8) column
Num8(x) == RoundTo(x, Q)

\* ------------------------------------------------------------- helpers
RECURSIVE SumSeq(_, _)
SumSeq(f, n) == IF n = 0 THEN 0 ELSE f[n] + SumSeq(f, n - 1)

\* SELECT COALESCE(SUM(remaining),0) FROM offers WHERE maker_id = u AND
\* type = 'SELL' AND status = 'OPEN' AND asset_symbol = 'FDA'
Locked(u) ==
    SumSeq([i \in 1..Len(offers) |->
              IF /\ offers[i].maker = u /\ offers[i].type = "SELL"
                 /\ offers[i].status = "OPEN" /\ offers[i].asset = "FDA"
              THEN offers[i].remaining ELSE 0], Len(offers))

\* SELECT COALESCE(SUM(amount),0) FROM fda_holdings WHERE user_id = u AND
\* expires_at > CURRENT_TIMESTAMP
HoldingLocked(u) ==
    SumSeq([i \in 1..Len(holdings) |->
              IF holdings[i].user = u /\ holdings[i].expires_at > now
              THEN holdings[i].amount ELSE 0], Len(holdings))

\* usableBalance = (fda_balance - locked) - holdingAmount - holdingLocked
UsableBalance(u) ==
    ((balances[u] - Locked(u)) - settings.holding_fda_amount) - HoldingLocked(u)

\* the requests in flight, and how many of them satisfy a condition
InFlight == BagCardinality(reqs)

RECURSIVE BagCount(_, _)
BagCount(B, S) ==
    IF S = {} THEN 0
    ELSE LET r == CHOOSE x \in S : TRUE
         IN  CopiesIn(r, B) + BagCount(B, S \ {r})

Pending(op) == BagCount(reqs, {r \in BagToSet(reqs) : r.op = op})

Init ==
    /\ balances = [u \in Users |-> 0]
    /\ offers = << >>
    /\ trades = << >>
    /\ disputes = << >>
    /\ transfers = EmptyBag
    /\ settings = [p2p_fee_rate |-> DefaultFeeRatePercent,
                   holding_fda_amount |-> DefaultHoldingAmount]
    /\ reqs = EmptyBag
    /\ resp = 0
    /\ funded = 0
    /\ holdings = << >>
    /\ now = 0
    /\ failed = 0

\* ------------------------------------------------- a request's progress
\* the handler answers at once
Answer(code) == resp' = code /\ UNCHANGED reqs

\* the handler awaits its first write
Enter(r) == reqs' = reqs (+) SetToBag({r}) /\ UNCHANGED resp

\* the handler awaits its next statement
Goto(r, r2) == reqs' = (reqs (-) SetToBag({r})) (+) SetToBag({r2}) /\ UNCHANGED resp

\* the handler returns: the request is gone and its response is recorded
Reply(r, code) == reqs' = reqs (-) SetToBag({r}) /\ resp' = code

At(r, op, pc) == r \in BagToSet(reqs) /\ r.op = op /\ r.pc = pc

\* ------------------------------------------------------------- funding
\* POST /internal/add-balance: one relative UPDATE (or the first INSERT)
AddBalance(u, amount) ==
    /\ IF amount <= 0
       THEN /\ resp' = 400
            /\ UNCHANGED <<balances, funded>>
       ELSE /\ balances' = [balances EXCEPT ![u] = @ + amount]
            /\ funded' = funded + amount
            /\ resp' = 200
    /\ UNCHANGED <<offers, trades, disputes, transfers, settings, reqs, holdings, now, failed>>

\* PUT /admin/settings/p2p_fee_rate
PutFeeRate(u, value) ==
    /\ IF u # Admin
       THEN resp' = 403 /\ UNCHANGED settings
       ELSE IF value < 0 \/ value > 100
       THEN resp' = 400 /\ UNCHANGED settings
       ELSE /\ settings' = [settings EXCEPT !.p2p_fee_rate = value]
            /\ resp' = 200
    /\ UNCHANGED <<balances, offers, trades, disputes, transfers, reqs, funded, holdings, now, failed>>

\* PUT /admin/settings/holding_fda_amount: the value must match
\* /^\d+(\.\d{0,18})?$/, so a negative one is refused
PutHoldingAmount(u, value) ==
    /\ IF u # Admin
       THEN resp' = 403 /\ UNCHANGED settings
       ELSE IF value < 0
       THEN resp' = 400 /\ UNCHANGED settings
       ELSE /\ settings' = [settings EXCEPT !.holding_fda_amount = value]
            /\ resp' = 200
    /\ UNCHANGED <<balances, offers, trades, disputes, transfers, reqs, funded, holdings, now, failed>>

\* --------------------------------------------------------- POST /offers
NewOffer(u, type, asset, amount) ==
    [maker |-> u, type |-> type, asset |-> asset, amount |-> Num8(amount),
     remaining |-> Num8(amount), status |-> "OPEN", refunds |-> 0, refunded |-> 0]

\* validation, then for a SELL offer in FDA the balance reads and checks;
\* a BUY offer (or another asset) goes straight to its INSERT
CreateOfferStart(u, type, asset, amount) ==
    /\ IF amount = 0
       THEN Answer(400) /\ UNCHANGED offers
       ELSE IF type = "BUY" \/ asset # "FDA"
       THEN /\ offers' = Append(offers, NewOffer(u, type, asset, amount))
            /\ Answer(200)
       ELSE IF balances[u] < amount \/ UsableBalance(u) < amount
       THEN Answer(400) /\ UNCHANGED offers
       ELSE /\ Enter(Req("createOffer", "debit", u, 0, amount, 0, "none"))
            /\ UNCHANGED offers
    /\ UNCHANGED <<balances, trades, disputes, transfers, settings, funded, holdings, now, failed>>

\* UPDATE internal_balances SET fda_balance = fda_balance - amountNum
CreateOfferDebit(r) ==
    /\ At(r, "createOffer", "debit")
    /\ balances' = [balances EXCEPT ![r.actor] = @ - r.amt]
    /\ Goto(r, [r EXCEPT !.pc = "insert"])
    /\ UNCHANGED <<offers, trades, disputes, transfers, settings, funded, holdings, now, failed>>

\* INSERT INTO offers (..., amount, remaining, ...) VALUES (..., amount, amount, ...)
CreateOfferInsert(r) ==
    /\ At(r, "createOffer", "insert")
    /\ offers' = Append(offers, NewOffer(r.actor, "SELL", "FDA", r.amt))
    /\ Reply(r, 200)
    /\ UNCHANGED <<balances, trades, disputes, transfers, settings, funded, holdings, now, failed>>

\* -------------------------------------------------- POST /offers/:id/cancel
CancelOfferStart(u, o) ==
    /\ IF o > Len(offers) THEN Answer(404)
       ELSE IF offers[o].maker # u THEN Answer(403)
       ELSE IF offers[o].status # "OPEN" THEN Answer(400)
       ELSE IF offers[o].type = "SELL" /\ offers[o].asset = "FDA"
       THEN Enter(Req("cancelOffer", "credit", u, o, offers[o].remaining, 0, "none"))
       ELSE Enter(Req("cancelOffer", "update", u, o, 0, 0, "none"))
    /\ UNCHANGED <<balances, offers, trades, disputes, transfers, settings, funded, holdings, now, failed>>

\* UPDATE internal_balances SET fda_balance = fda_balance + offer.remaining,
\* with the remaining that the handler read at its start
CancelOfferCredit(r) ==
    /\ At(r, "cancelOffer", "credit")
    /\ balances' = [balances EXCEPT ![r.actor] = @ + r.amt]
    /\ offers' = [offers EXCEPT ![r.id].refunds = @ + 1, ![r.id].refunded = @ + r.amt]
    /\ Goto(r, [r EXCEPT !.pc = "update"])
    /\ UNCHANGED <<trades, disputes, transfers, settings, funded, holdings, now, failed>>

\* UPDATE offers SET status = 'CANCELLED' WHERE id = ?
CancelOfferUpdate(r) ==
    /\ At(r, "cancelOffer", "update")
    /\ offers' = [offers EXCEPT ![r.id].status = "CANCELLED"]
    /\ Reply(r, 200)
    /\ UNCHANGED <<balances, trades, disputes, transfers, settings, funded, holdings, now, failed>>

\* --------------------------------------------------------- POST /trades
\* offer and amount checks, role assignment, and for a BUY offer in FDA the
\* acceptor's balance reads and checks
AcceptOfferStart(u, o, amount) ==
    /\ IF amount <= 0 THEN Answer(400)
       ELSE IF o > Len(offers) THEN Answer(404)
       ELSE IF offers[o].status # "OPEN" THEN Answer(404)
       ELSE IF offers[o].remaining < amount THEN Answer(400)
       ELSE IF offers[o].type = "BUY" /\ offers[o].asset = "FDA"
       THEN IF balances[u] < amount \/ UsableBalance(u) < amount
            THEN Answer(400)
            ELSE Enter(Req("acceptOffer", "debit", u, o, amount, 0, "none"))
       ELSE Enter(Req("acceptOffer", "insert", u, o, amount, 0, "none"))
    /\ UNCHANGED <<balances, offers, trades, disputes, transfers, settings, funded, holdings, now, failed>>

\* UPDATE internal_balances SET fda_balance = fda_balance - amountNum (acceptor)
AcceptOfferDebit(r) ==
    /\ At(r, "acceptOffer", "debit")
    /\ balances' = [balances EXCEPT ![r.actor] = @ - r.amt]
    /\ Goto(r, [r EXCEPT !.pc = "insert"])
    /\ UNCHANGED <<offers, trades, disputes, transfers, settings, funded, holdings, now, failed>>

NewTrade(o, u, amount) ==
    [offer |-> o,
     buyer |-> IF offers[o].type = "SELL" THEN u ELSE offers[o].maker,
     seller |-> IF offers[o].type = "SELL" THEN offers[o].maker ELSE u,
     amount |-> Num8(amount), status |-> "PENDING",
     paid_at |-> -1, payment_screenshot |-> 0, fee_amount |-> 0, fee_rate |-> 0]

\* INSERT INTO trades (...) VALUES (..., 'PENDING')
AcceptOfferInsert(r) ==
    /\ At(r, "acceptOffer", "insert")
    /\ trades' = Append(trades, NewTrade(r.id, r.actor, r.amt))
    /\ Goto(r, [r EXCEPT !.pc = "decrement"])
    /\ UNCHANGED <<balances, offers, disputes, transfers, settings, funded, holdings, now, failed>>

\* UPDATE offers SET remaining = remaining - amountNum WHERE id = ?
AcceptOfferDecrement(r) ==
    /\ At(r, "acceptOffer", "decrement")
    /\ offers' = [offers EXCEPT ![r.id].remaining = Num8(@ - r.amt)]
    /\ Reply(r, 200)
    /\ UNCHANGED <<balances, trades, disputes, transfers, settings, funded, holdings, now, failed>>

\* ------------------------------------------- POST /trades/:id/mark-paid
\* The guard reads only buyer_id, which no statement changes, and the UPDATE
\* names no status: SELECT and UPDATE are taken as one step.
\* payment_screenshot: 0 for none (stored as NULL), else the image sent.
\* a variant that leaves a trade already marked as it is
MarkPaidOnce(u, t, payment_screenshot) ==
    /\ IF t > Len(trades) THEN resp' = 404 /\ UNCHANGED trades
       ELSE IF trades[t].buyer # u THEN resp' = 403 /\ UNCHANGED trades
       ELSE /\ trades' = IF trades[t].status = "PAID_PENDING_RELEASE" THEN trades
                         ELSE [trades EXCEPT ![t].status = "PAID_PENDING_RELEASE",
                                             ![t].paid_at = now,
                                             ![t].payment_screenshot = payment_screenshot]
            /\ resp' = 200
    /\ UNCHANGED <<balances, offers, disputes, transfers, settings, reqs, funded, holdings, now, failed>>

MarkPaid(u, t, payment_screenshot) ==
    /\ IF t > Len(trades) THEN resp' = 404 /\ UNCHANGED trades
       ELSE IF trades[t].buyer # u THEN resp' = 403 /\ UNCHANGED trades
       ELSE /\ trades' = [trades EXCEPT ![t].status = "PAID_PENDING_RELEASE",
                                        ![t].paid_at = now,
                                        ![t].payment_screenshot = payment_screenshot]
            /\ resp' = 200
    /\ UNCHANGED <<balances, offers, disputes, transfers, settings, reqs, funded, holdings, now, failed>>

\* --------------------------------------------- POST /trades/:id/release
\* fee = parseFloat(trade.amount) * (feeRatePercent / 100)
Fee(amount, feeRatePercent) == (amount * feeRatePercent) \div 100

\* amountToBuyer = parseFloat(trade.amount) - fee
AmountToBuyer(amount, feeRatePercent) == amount - Fee(amount, feeRatePercent)

\* a row of internal_transfers; trade = 0 for a direct transfer (its note
\* names no trade)
TransferRow(from, to, amount, t) ==
    [from |-> from, to |-> to, amount |-> amount, trade |-> t]

\* a variant that does not read the trade's status
ReleaseStartAnyStatus(u, t) ==
    /\ IF t > Len(trades) THEN Answer(404)
       ELSE IF trades[t].seller # u THEN Answer(403)
       ELSE Enter(Req("release", "credit", u, t,
                      AmountToBuyer(trades[t].amount, settings.p2p_fee_rate),
                      settings.p2p_fee_rate, "none"))
    /\ UNCHANGED <<balances, offers, trades, disputes, transfers, settings, funded, holdings, now, failed>>

\* the guards, the p2p_fee_rate read and the fee computation
ReleaseStart(u, t) ==
    /\ IF t > Len(trades) THEN Answer(404)
       ELSE IF trades[t].seller # u THEN Answer(403)
       ELSE IF trades[t].status # "PAID_PENDING_RELEASE" THEN Answer(400)
       ELSE Enter(Req("release", "credit", u, t,
                      AmountToBuyer(trades[t].amount, settings.p2p_fee_rate),
                      settings.p2p_fee_rate, "none"))
    /\ UNCHANGED <<balances, offers, trades, disputes, transfers, settings, funded, holdings, now, failed>>

\* UPDATE internal_balances SET fda_balance = fda_balance + amountToBuyer (buyer)
\* INSERT INTO internal_transfers (seller, buyer, amountToBuyer, 'P2P Trade #id ...')
ReleaseCredit(r) ==
    /\ At(r, "release", "credit")
    /\ balances' = [balances EXCEPT ![trades[r.id].buyer] = @ + r.amt]
    /\ transfers' = transfers (+) SetToBag({TransferRow(trades[r.id].seller,
                                                       trades[r.id].buyer, r.amt, r.id)})
    /\ Goto(r, [r EXCEPT !.pc = "finish"])
    /\ UNCHANGED <<offers, trades, disputes, settings, funded, holdings, now, failed>>

\* UPDATE trades SET status = 'COMPLETED', fee_amount = fee, fee_rate = P2P_FEE_RATE
ReleaseFinish(r) ==
    /\ At(r, "release", "finish")
    /\ trades' = [trades EXCEPT
         ![r.id].status = "COMPLETED",
         ![r.id].fee_amount = Num8(Fee(trades[r.id].amount, r.aux)),
         ![r.id].fee_rate = r.aux * PercentMicro]
    /\ Reply(r, 200)
    /\ UNCHANGED <<balances, offers, disputes, transfers, settings, funded, holdings, now, failed>>

\* ---------------------------------------------- POST /trades/:id/cancel
\* a variant that does not read the trade's status
CancelTradeStartAnyStatus(u, t) ==
    /\ IF t > Len(trades) THEN Answer(404)
       ELSE IF trades[t].buyer # u /\ trades[t].seller # u THEN Answer(403)
       ELSE Enter(Req("cancelTrade", "restore", u, t, trades[t].amount, 0, "none"))
    /\ UNCHANGED <<balances, offers, trades, disputes, transfers, settings, funded, holdings, now, failed>>

CancelTradeStart(u, t) ==
    /\ IF t > Len(trades) THEN Answer(404)
       ELSE IF trades[t].buyer # u /\ trades[t].seller # u THEN Answer(403)
       ELSE IF trades[t].status # "PENDING" /\ trades[t].status # "PENDING_PAYMENT"
       THEN Answer(400)
       ELSE Enter(Req("cancelTrade", "restore", u, t, trades[t].amount, 0, "none"))
    /\ UNCHANGED <<balances, offers, trades, disputes, transfers, settings, funded, holdings, now, failed>>

\* UPDATE offers SET remaining = remaining + trade.amount WHERE id = offer.id
CancelTradeRestore(r) ==
    /\ At(r, "cancelTrade", "restore")
    /\ offers' = [offers EXCEPT ![trades[r.id].offer].remaining = Num8(@ + r.amt)]
    /\ Goto(r, [r EXCEPT !.pc = "update"])
    /\ UNCHANGED <<balances, trades, disputes, transfers, settings, funded, holdings, now, failed>>

\* UPDATE trades SET status = 'CANCELLED' WHERE id = ?
CancelTradeUpdate(r) ==
    /\ At(r, "cancelTrade", "update")
    /\ trades' = [trades EXCEPT ![r.id].status = "CANCELLED"]
    /\ Reply(r, 200)
    /\ UNCHANGED <<balances, offers, disputes, transfers, settings, funded, holdings, now, failed>>

\* -------------------------------------------- POST /trades/:id/disputes
\* the buyer's window after paid_at, in minutes (2 * 60 * 60 * 1000 ms)
DisputeWindow == 120

HasDispute(t) == \E d \in 1..Len(disputes) : disputes[d].trade = t

\* a variant whose window ends just before paid_at + 2 hours
OpenDisputeStartEarly(u, t) ==
    /\ IF t > Len(trades) THEN Answer(404)
       ELSE IF trades[t].buyer # u /\ trades[t].seller # u THEN Answer(403)
       ELSE IF /\ trades[t].buyer = u
               /\ trades[t].status = "PAID_PENDING_RELEASE"
               /\ (trades[t].paid_at < 0 \/ now >= trades[t].paid_at + DisputeWindow)
       THEN Answer(400)
       ELSE IF HasDispute(t) THEN Answer(400)
       ELSE Enter(Req("openDispute", "insert", u, t, 0, 0, "none"))
    /\ UNCHANGED <<balances, offers, trades, disputes, transfers, settings, funded, holdings, now, failed>>

\* party check, the buyer's 2-hour window, the existing-dispute check
OpenDisputeStart(u, t) ==
    /\ IF t > Len(trades) THEN Answer(404)
       ELSE IF trades[t].buyer # u /\ trades[t].seller # u THEN Answer(403)
       ELSE IF /\ trades[t].buyer = u
               /\ trades[t].status = "PAID_PENDING_RELEASE"
               /\ (trades[t].paid_at < 0 \/ now > trades[t].paid_at + DisputeWindow)
       THEN Answer(400)
       ELSE IF HasDispute(t) THEN Answer(400)
       ELSE Enter(Req("openDispute", "insert", u, t, 0, 0, "none"))
    /\ UNCHANGED <<balances, offers, trades, disputes, transfers, settings, funded, holdings, now, failed>>

\* a variant for a disputes table whose trade_id is not UNIQUE
OpenDisputeInsertNotUnique(r) ==
    /\ At(r, "openDispute", "insert")
    /\ disputes' = Append(disputes, [trade |-> r.id, raised_by |-> r.actor,
                                     status |-> "OPEN"])
    /\ Goto(r, [r EXCEPT !.pc = "update"])
    /\ UNCHANGED <<balances, offers, trades, transfers, settings, funded, holdings, now, failed>>

\* INSERT INTO disputes (trade_id, raised_by_id, reason); trade_id is UNIQUE,
\* so a second row for the trade throws and the handler answers 500
OpenDisputeInsert(r) ==
    /\ At(r, "openDispute", "insert")
    /\ IF HasDispute(r.id)
       THEN Reply(r, 500) /\ UNCHANGED disputes
       ELSE /\ disputes' = Append(disputes, [trade |-> r.id, raised_by |-> r.actor,
                                             status |-> "OPEN"])
            /\ Goto(r, [r EXCEPT !.pc = "update"])
    /\ UNCHANGED <<balances, offers, trades, transfers, settings, funded, holdings, now, failed>>

\* UPDATE trades SET status = 'DISPUTED' WHERE id = ?
OpenDisputeUpdate(r) ==
    /\ At(r, "openDispute", "update")
    /\ trades' = [trades EXCEPT ![r.id].status = "DISPUTED"]
    /\ Reply(r, 200)
    /\ UNCHANGED <<balances, offers, disputes, transfers, settings, funded, holdings, now, failed>>

\* ---------------------------------------- POST /admin/disputes/:id/resolve
Outcomes == {"RESOLVED", "REJECTED", "CLOSED"}

ResolveDisputeStart(u, d, status, action) ==
    /\ IF u # Admin THEN Answer(403)
       ELSE IF status \notin Outcomes THEN Answer(400)
       ELSE IF d > Len(disputes) THEN Answer(404)
       ELSE IF disputes[d].status # "OPEN" THEN Answer(400)
       ELSE Enter([Req("resolveDispute", "dispute", u, d, 0, 0, action)
                     EXCEPT !.out = status])
    /\ UNCHANGED <<balances, offers, trades, disputes, transfers, settings, funded, holdings, now, failed>>

\* UPDATE disputes SET status = ?, resolved_by_id = ? WHERE id = ?
ResolveDisputeUpdate(r) ==
    /\ At(r, "resolveDispute", "dispute")
    /\ disputes' = [disputes EXCEPT ![r.id].status = r.out]
    /\ IF r.act \in {"release", "cancel"}
       THEN Goto(r, [r EXCEPT !.pc = "trade"])
       ELSE Reply(r, 200)
    /\ UNCHANGED <<balances, offers, trades, transfers, settings, funded, holdings, now, failed>>

\* feeAmount = parseFloat(trade.amount) * (parseFloat(trade.fee_rate) || 0.01)
DisputeFee(amount, fee_rate) ==
    (amount * (IF fee_rate = 0 THEN FallbackFeeRate ELSE fee_rate)) \div (100 * PercentMicro)

\* a variant that refunds the seller whatever the parent offer is
ResolveDisputeReadAnyOffer(r) ==
    LET t == disputes[r.id].trade
    IN  /\ At(r, "resolveDispute", "trade")
        /\ IF trades[t].status # "DISPUTED" THEN Reply(r, 200)
           ELSE IF r.act = "release"
           THEN Goto(r, [r EXCEPT !.pc = "credit",
                    !.amt = trades[t].amount - DisputeFee(trades[t].amount, trades[t].fee_rate)])
           ELSE Goto(r, [r EXCEPT !.pc = "credit", !.amt = trades[t].amount])
        /\ UNCHANGED <<balances, offers, trades, disputes, transfers, settings, funded, holdings, now, failed>>

\* SELECT the trade (and for cancel its offer); nothing is done, and the
\* handler still answers success, unless the trade is DISPUTED
ResolveDisputeRead(r) ==
    LET t == disputes[r.id].trade
        o == trades[t].offer
    IN  /\ At(r, "resolveDispute", "trade")
        /\ IF trades[t].status # "DISPUTED" THEN Reply(r, 200)
           ELSE IF r.act = "release"
           THEN Goto(r, [r EXCEPT !.pc = "credit",
                    !.amt = trades[t].amount - DisputeFee(trades[t].amount, trades[t].fee_rate)])
           ELSE IF offers[o].type = "SELL" /\ offers[o].asset = "FDA"
           THEN Goto(r, [r EXCEPT !.pc = "credit", !.amt = trades[t].amount])
           ELSE Goto(r, [r EXCEPT !.pc = "finish"])
        /\ UNCHANGED <<balances, offers, trades, disputes, transfers, settings, funded, holdings, now, failed>>

\* UPDATE internal_balances SET fda_balance = fda_balance + ? : the buyer's
\* payout with its internal_transfers row (release), the seller's refund (cancel)
ResolveDisputeCredit(r) ==
    LET t == disputes[r.id].trade
    IN  /\ At(r, "resolveDispute", "credit")
        /\ IF r.act = "release"
           THEN /\ balances' = [balances EXCEPT ![trades[t].buyer] = @ + r.amt]
                /\ transfers' = transfers (+) SetToBag({TransferRow(trades[t].seller,
                                                        trades[t].buyer, r.amt, t)})
           ELSE /\ balances' = [balances EXCEPT ![trades[t].seller] = @ + r.amt]
                /\ UNCHANGED transfers
        /\ Goto(r, [r EXCEPT !.pc = "finish"])
        /\ UNCHANGED <<offers, trades, disputes, settings, funded, holdings, now, failed>>

\* a variant that gives the trade's amount back to the offer on cancel
ResolveDisputeFinishRestoring(r) ==
    LET t == disputes[r.id].trade
    IN  /\ At(r, "resolveDispute", "finish")
        /\ trades' = [trades EXCEPT ![t].status =
                        IF r.act = "release" THEN "COMPLETED" ELSE "CANCELLED"]
        /\ offers' = IF r.act = "cancel"
                     THEN [offers EXCEPT ![trades[t].offer].remaining = @ + trades[t].amount]
                     ELSE offers
        /\ Reply(r, 200)
        /\ UNCHANGED <<balances, disputes, transfers, settings, funded, holdings, now, failed>>

\* UPDATE trades SET status = 'COMPLETED' (release) or 'CANCELLED' (cancel)
ResolveDisputeFinish(r) ==
    LET t == disputes[r.id].trade
    IN  /\ At(r, "resolveDispute", "finish")
        /\ trades' = [trades EXCEPT ![t].status =
                        IF r.act = "release" THEN "COMPLETED" ELSE "CANCELLED"]
        /\ Reply(r, 200)
        /\ UNCHANGED <<balances, offers, disputes, transfers, settings, funded, holdings, now, failed>>

\* ----------------------------------------------- POST /internal/transfer
\* to = 0 stands for an address no wallet row has
TransferStart(u, to, amount) ==
    /\ IF amount <= 0 THEN Answer(400)
       ELSE IF to \notin Users THEN Answer(404)
       ELSE IF to = u THEN Answer(400)
       ELSE IF balances[u] < amount THEN Answer(400)
       ELSE IF (LET usable == (balances[u] - Locked(u)) - settings.holding_fda_amount
                IN  (IF usable < 0 THEN 0 ELSE usable) < amount)
       THEN Answer(400)
       ELSE Enter(Req("transfer", "debit", u, to, amount, 0, "none"))
    /\ UNCHANGED <<balances, offers, trades, disputes, transfers, settings, funded, holdings, now, failed>>

\* UPDATE internal_balances SET fda_balance = fda_balance - amount (sender)
TransferDebit(r) ==
    /\ At(r, "transfer", "debit")
    /\ balances' = [balances EXCEPT ![r.actor] = @ - r.amt]
    /\ Goto(r, [r EXCEPT !.pc = "credit"])
    /\ UNCHANGED <<offers, trades, disputes, transfers, settings, funded, holdings, now, failed>>

\* UPDATE internal_balances SET fda_balance = fda_balance + amount (recipient)
\* INSERT INTO internal_transfers (from_user_id, to_user_id, amount, note)
TransferCredit(r) ==
    /\ At(r, "transfer", "credit")
    /\ balances' = [balances EXCEPT ![r.id] = @ + r.amt]
    /\ transfers' = transfers (+) SetToBag({TransferRow(r.actor, r.id, r.amt, 0)})
    /\ Reply(r, 200)
    /\ UNCHANGED <<offers, trades, disputes, settings, funded, holdings, now, failed>>

\* ------------------------------------- POST /fda/transfer-to-mc-wallet
\* a month of calculateExpirationDate (setMonth), taken as 30 days, in minutes
MonthMinutes == 43200

\* fda_holdings.holding_period is VARCHAR(20)
PeriodColumn == 20

\* A holdingPeriod is a sequence of characters; << >> is a request without
\* one (or with an empty one: if (holdingPeriod) is false for both).
Digits == <<"0", "1", "2", "3", "4", "5", "6", "7", "8", "9">>
IsDigit(c) == \E i \in 1..Len(Digits) : Digits[i] = c
DigitValue(c) == (CHOOSE i \in 1..Len(Digits) : Digits[i] = c) - 1

\* String(holdingPeriod).toUpperCase(), for the letters the inputs use
ToUpperCase(s) ==
    [i \in 1..Len(s) |-> IF s[i] = "m" THEN "M" ELSE IF s[i] = "y" THEN "Y" ELSE s[i]]

RECURSIVE Trim(_)
Trim(s) ==
    IF s = << >> THEN s
    ELSE IF Head(s) = " " THEN Trim(Tail(s))
    ELSE IF s[Len(s)] = " " THEN Trim(SubSeq(s, 1, Len(s) - 1))
    ELSE s

\* period.match(/^(\d+)M$/)
MatchesMonths(s) ==
    /\ Len(s) >= 2
    /\ s[Len(s)] = "M"
    /\ \A i \in 1..(Len(s) - 1) : IsDigit(s[i])

RECURSIVE ParseInt(_)
ParseInt(s) ==
    IF s = << >> THEN 0
    ELSE ParseInt(SubSeq(s, 1, Len(s) - 1)) * 10 + DigitValue(s[Len(s)])

\* the expiration time, or -1 where the function throws
calculateExpirationDate(holdingPeriod) ==
    LET period == Trim(ToUpperCase(holdingPeriod))
    IN  IF ~MatchesMonths(period) THEN -1
        ELSE LET months == ParseInt(SubSeq(period, 1, Len(period) - 1))
             IN  IF months <= 0 THEN -1 ELSE now + months * MonthMinutes

\* the INSERT of holdingPeriod.toUpperCase() (not trimmed) fails when the
\* text is longer than the column and the excess is not all spaces
Overlong(holdingPeriod) ==
    \E i \in (PeriodColumn + 1)..Len(holdingPeriod) : holdingPeriod[i] # " "

\* validation, calculateExpirationDate and the user lookup
FdaTransferStart(u, amount, holdingPeriod) ==
    /\ IF amount <= 0 THEN Answer(400)
       ELSE IF holdingPeriod # << >> /\ calculateExpirationDate(holdingPeriod) < 0
       THEN Answer(400)
       ELSE IF u \notin Users THEN Answer(404)
       ELSE Enter(Req("fdaTransfer", "credit", u, u, amount,
                      IF holdingPeriod # << >>
                      THEN calculateExpirationDate(holdingPeriod) ELSE -1,
                      IF Overlong(holdingPeriod) THEN "overlong" ELSE "none"))
    /\ UNCHANGED <<balances, offers, trades, disputes, transfers, settings, funded, holdings, now, failed>>

\* UPDATE internal_balances SET fda_balance = fda_balance + amountNum
FdaTransferCredit(r) ==
    /\ At(r, "fdaTransfer", "credit")
    /\ balances' = [balances EXCEPT ![r.id] = @ + r.amt]
    /\ funded' = funded + r.amt
    /\ IF r.aux < 0 THEN Reply(r, 200) ELSE Goto(r, [r EXCEPT !.pc = "hold"])
    /\ UNCHANGED <<offers, trades, disputes, transfers, settings, holdings, now, failed>>

\* INSERT INTO fda_holdings (user_id, amount, holding_period, expires_at, created_at)
\* the statement throws for a period the column cannot hold, and the catch
\* answers 500 after the balance was credited
FdaTransferHold(r) ==
    /\ At(r, "fdaTransfer", "hold")
    /\ IF r.act = "overlong"
       THEN UNCHANGED holdings /\ Reply(r, 500)
       ELSE /\ holdings' = Append(holdings,
                               [user |-> r.id, amount |-> r.amt, expires_at |-> r.aux])
            /\ Reply(r, 200)
    /\ UNCHANGED <<balances, offers, trades, disputes, transfers, settings, funded, now, failed>>

\* ------------------------------------------- PUT /admin/holdings/:id
\* a variant that counts the months from the holding's previous expiry
UpdateHoldingPeriodFromExpiry(u, h, holdingPeriod) ==
    /\ IF u # Admin THEN resp' = 403 /\ UNCHANGED holdings
       ELSE IF holdingPeriod = << >> THEN resp' = 400 /\ UNCHANGED holdings
       ELSE IF calculateExpirationDate(holdingPeriod) < 0 THEN resp' = 400 /\ UNCHANGED holdings
       ELSE IF h > Len(holdings) THEN resp' = 404 /\ UNCHANGED holdings
       ELSE IF Overlong(holdingPeriod) THEN resp' = 500 /\ UNCHANGED holdings
       ELSE /\ holdings' = [holdings EXCEPT ![h].expires_at =
                               @ + (calculateExpirationDate(holdingPeriod) - now)]
            /\ resp' = 200
    /\ UNCHANGED <<balances, offers, trades, disputes, transfers, settings, reqs, funded, now, failed>>

\* admin only; calculateExpirationDate(holdingPeriod) from the time of the
\* call, the holding's SELECT, and one UPDATE of holding_period and
\* expires_at (which throws for a period the column cannot hold)
UpdateHoldingPeriod(u, h, holdingPeriod) ==
    /\ IF u # Admin THEN resp' = 403 /\ UNCHANGED holdings
       ELSE IF holdingPeriod = << >> THEN resp' = 400 /\ UNCHANGED holdings
       ELSE IF calculateExpirationDate(holdingPeriod) < 0 THEN resp' = 400 /\ UNCHANGED holdings
       ELSE IF h > Len(holdings) THEN resp' = 404 /\ UNCHANGED holdings
       ELSE IF Overlong(holdingPeriod) THEN resp' = 500 /\ UNCHANGED holdings
       ELSE /\ holdings' = [holdings EXCEPT ![h].expires_at =
                               calculateExpirationDate(holdingPeriod)]
            /\ resp' = 200
    /\ UNCHANGED <<balances, offers, trades, disputes, transfers, settings, reqs, funded, now, failed>>

\* ------------------------------------------------------------ the clock
\* time passes between two statements
Tick(times) ==
    /\ \E t \in times : t > now /\ now' = t
    /\ UNCHANGED <<balances, offers, trades, disputes, transfers, settings, reqs, resp, funded, holdings, failed>>

\* ------------------------------------------------------ storage failure
\* A statement of a request in flight throws (pool.query rejects: the pool
\* gives up a connection after connectionTimeoutMillis, the server drops
\* it, the request is timed out).  The handler's catch answers 500.  The
\* statements already run were committed one by one; the ROLLBACK of
\* db.transaction goes to a client that ran none of them.
Fail(r) ==
    /\ r \in BagToSet(reqs)
    /\ Reply(r, 500)
    /\ failed' = failed + 1
    /\ UNCHANGED <<balances, offers, trades, disputes, transfers, settings, funded, holdings, now>>

\* ------------------------------------------------------ the callers' inputs
Sides == {"SELL", "BUY"}
Assets == {"FDA"}
OfferAmounts == {Q}
TradeAmounts == {Q}
FundAmounts == {Q}
SendAmounts == {Q}
FeeRates == {5}
TradeActions == {"release", "cancel", "none"}
\* the users who post offers and those who accept them, and the status the
\* arbiter gives a dispute
Makers == {1}
Takers == {2}
\* holdingPeriod (none given, or one month), and the times the clock shows
\* after a holding of one month has expired
HoldingPeriods == {<< >>, <<"1", "M">>}
HoldTimes == {MonthMinutes + 1}
Resolutions == {"RESOLVED"}

\* internal_transfers rows written for trade t: each stands for one credit
\* of the buyer
Recorded(t) == BagCount(transfers, {x \in BagToSet(transfers) : x.trade = t})

\* payouts of trade t written or about to be written
Payouts(t) ==
    Recorded(t)
    + BagCount(reqs, {r \in BagToSet(reqs) :
          \/ r.op = "release" /\ r.id = t
          \/ /\ r.op = "resolveDispute" /\ r.act = "release"
             /\ disputes[r.id].trade = t})

\* direct transfers written or under way
Sent ==
    BagCount(transfers, {x \in BagToSet(transfers) : x.trade = 0}) + Pending("transfer")

DoAddBalance(slots) ==
    \E u \in Traders, amount \in FundAmounts :
        /\ InFlight < slots
        /\ funded + amount <= MaxFund * Q
        /\ AddBalance(u, amount)

DoFdaTransfer(slots) ==
    \E u \in Traders, amount \in FundAmounts, holdingPeriod \in HoldingPeriods :
        /\ InFlight < slots
        /\ funded + amount + BagCount(reqs, {r \in BagToSet(reqs) : r.op = "fdaTransfer"}) * Q
              <= MaxFund * Q
        /\ FdaTransferStart(u, amount, holdingPeriod)

DoPutFeeRate(slots) ==
    \E u \in Users, value \in FeeRates :
        /\ InFlight < slots
        /\ PutFeeRate(u, value)

DoCreateOffer(slots) ==
    \E u \in Makers, type \in Sides, asset \in Assets, amount \in OfferAmounts :
        /\ InFlight < slots
        /\ Len(offers) + Pending("createOffer") < MaxOffers
        /\ CreateOfferStart(u, type, asset, amount)

DoCancelOffer(slots) ==
    \E u \in Traders, o \in 1..MaxOffers :
        /\ InFlight < slots
        /\ CancelOfferStart(u, o)

DoAcceptOffer(slots) ==
    \E u \in Takers, o \in 1..MaxOffers, amount \in TradeAmounts :
        /\ InFlight < slots
        /\ Len(trades) + Pending("acceptOffer") < MaxTrades
        /\ AcceptOfferStart(u, o, amount)

DoMarkPaid(slots) ==
    \E u \in Traders, t \in 1..MaxTrades :
        /\ InFlight < slots
        /\ MarkPaid(u, t, 0)

DoRelease(slots) ==
    \E u \in Traders, t \in 1..MaxTrades :
        /\ InFlight < slots
        /\ Payouts(t) < MaxPayouts
        /\ ReleaseStart(u, t)

DoCancelTrade(slots) ==
    \E u \in Traders, t \in 1..MaxTrades :
        /\ InFlight < slots
        /\ CancelTradeStart(u, t)

DoOpenDispute(slots) ==
    \E u \in Traders, t \in 1..MaxTrades :
        /\ InFlight < slots
        /\ OpenDisputeStart(u, t)

DoResolveDispute(slots) ==
    \E u \in Users, d \in 1..MaxTrades, status \in Resolutions, action \in TradeActions :
        /\ InFlight < slots
        /\ d <= Len(disputes) /\ action = "release" => Payouts(disputes[d].trade) < MaxPayouts
        /\ ResolveDisputeStart(u, d, status, action)

DoTransfer(slots) ==
    \E u \in Traders, to \in Traders, amount \in SendAmounts :
        /\ InFlight < slots
        /\ Sent < MaxTransfers
        /\ TransferStart(u, to, amount)

\* a request in flight runs its next statement
RunCreateOfferDebit == \E r \in BagToSet(reqs) : CreateOfferDebit(r)

RunCreateOfferInsert == \E r \in BagToSet(reqs) : CreateOfferInsert(r)

RunCancelOfferCredit == \E r \in BagToSet(reqs) : CancelOfferCredit(r)

RunCancelOfferUpdate == \E r \in BagToSet(reqs) : CancelOfferUpdate(r)

RunAcceptOfferDebit == \E r \in BagToSet(reqs) : AcceptOfferDebit(r)

RunAcceptOfferInsert == \E r \in BagToSet(reqs) : AcceptOfferInsert(r)

RunAcceptOfferDecrement == \E r \in BagToSet(reqs) : AcceptOfferDecrement(r)

RunReleaseCredit == \E r \in BagToSet(reqs) : ReleaseCredit(r)

RunReleaseFinish == \E r \in BagToSet(reqs) : ReleaseFinish(r)

RunCancelTradeRestore == \E r \in BagToSet(reqs) : CancelTradeRestore(r)

RunCancelTradeUpdate == \E r \in BagToSet(reqs) : CancelTradeUpdate(r)

RunOpenDisputeInsert == \E r \in BagToSet(reqs) : OpenDisputeInsert(r)

RunOpenDisputeUpdate == \E r \in BagToSet(reqs) : OpenDisputeUpdate(r)

RunResolveDisputeUpdate == \E r \in BagToSet(reqs) : ResolveDisputeUpdate(r)

RunResolveDisputeRead == \E r \in BagToSet(reqs) : ResolveDisputeRead(r)

RunResolveDisputeCredit == \E r \in BagToSet(reqs) : ResolveDisputeCredit(r)

RunResolveDisputeFinish == \E r \in BagToSet(reqs) : ResolveDisputeFinish(r)

RunTransferDebit == \E r \in BagToSet(reqs) : TransferDebit(r)

RunTransferCredit == \E r \in BagToSet(reqs) : TransferCredit(r)

RunFdaTransferCredit == \E r \in BagToSet(reqs) : FdaTransferCredit(r)

RunFdaTransferHold == \E r \in BagToSet(reqs) : FdaTransferHold(r)

DoFail ==
    \E r \in BagToSet(reqs) :
        /\ failed < MaxFails
        /\ Fail(r)

\* the statements of the offer, trade and transfer handlers
StepTrade ==
    \/ RunCreateOfferDebit \/ RunCreateOfferInsert
    \/ RunCancelOfferCredit \/ RunCancelOfferUpdate
    \/ RunAcceptOfferDebit \/ RunAcceptOfferInsert \/ RunAcceptOfferDecrement
    \/ RunReleaseCredit \/ RunReleaseFinish
    \/ RunCancelTradeRestore \/ RunCancelTradeUpdate
    \/ RunTransferDebit \/ RunTransferCredit

\* the statements of the dispute handlers
StepDispute ==
    \/ RunOpenDisputeInsert \/ RunOpenDisputeUpdate
    \/ RunResolveDisputeUpdate \/ RunResolveDisputeRead
    \/ RunResolveDisputeCredit \/ RunResolveDisputeFinish

\* one request at a time
Next ==
    \/ DoAddBalance(1) \/ DoPutFeeRate(1)
    \/ DoCreateOffer(1) \/ DoCancelOffer(1) \/ DoAcceptOffer(1)
    \/ DoMarkPaid(1) \/ DoRelease(1) \/ DoCancelTrade(1)
    \/ DoOpenDispute(1) \/ DoResolveDispute(1)
    \/ DoTransfer(1)
    \/ StepTrade \/ StepDispute

Spec == Init /\ [][Next]_vars

\* requests of several callers in flight at once, under the default fee rate
\* and with no dispute raised
NextRace ==
    \/ DoAddBalance(MaxSlots)
    \/ DoCreateOffer(MaxSlots) \/ DoCancelOffer(MaxSlots) \/ DoAcceptOffer(MaxSlots)
    \/ DoMarkPaid(MaxSlots) \/ DoRelease(MaxSlots) \/ DoCancelTrade(MaxSlots)
    \/ DoTransfer(MaxSlots)
    \/ StepTrade

SpecRace == Init /\ [][NextRace]_vars

\* one request at a time, and a statement may fail
NextFail ==
    \/ DoAddBalance(1) \/ DoPutFeeRate(1)
    \/ DoCreateOffer(1) \/ DoCancelOffer(1) \/ DoAcceptOffer(1)
    \/ DoMarkPaid(1) \/ DoRelease(1) \/ DoCancelTrade(1)
    \/ DoOpenDispute(1) \/ DoResolveDispute(1)
    \/ DoTransfer(1)
    \/ StepTrade \/ StepDispute
    \/ DoFail

SpecFail == Init /\ [][NextFail]_vars

\* holdings: funds arrive from the FDA system with or without a holding
\* period, offers are posted, accepted and cancelled, transfers are sent, and
\* the holding period passes; one request at a time
TickHold == Tick(HoldTimes)

NextHold ==
    \/ DoFdaTransfer(1)
    \/ RunFdaTransferCredit \/ RunFdaTransferHold
    \/ DoCreateOffer(1) \/ RunCreateOfferDebit \/ RunCreateOfferInsert
    \/ DoCancelOffer(1) \/ RunCancelOfferCredit \/ RunCancelOfferUpdate
    \/ DoAcceptOffer(1)
    \/ RunAcceptOfferDebit \/ RunAcceptOfferInsert \/ RunAcceptOfferDecrement
    \/ DoTransfer(1) \/ RunTransferDebit \/ RunTransferCredit
    \/ TickHold

SpecHold == Init /\ [][NextHold]_vars

\* the order book alone, one request at a time: the traders are funded with
\* up to BookFund steps, the maker posts up to BookOffers offers, and any
\* trader, the maker included, accepts, marks paid and cancels
BookFund == 2
BookOffers == 2
BookAmounts == {Q, 2 * Q}

DoAddBalanceBook ==
    \E u \in Traders, amount \in FundAmounts :
        /\ InFlight < 1
        /\ funded + amount <= BookFund * Q
        /\ AddBalance(u, amount)

DoCreateOfferBook ==
    \E u \in Makers, type \in Sides, asset \in Assets, amount \in OfferAmounts :
        /\ InFlight < 1
        /\ Len(offers) < BookOffers
        /\ CreateOfferStart(u, type, asset, amount)

DoCancelOfferBook ==
    \E u \in Traders, o \in 1..BookOffers :
        /\ InFlight < 1
        /\ CancelOfferStart(u, o)

DoAcceptOfferBook ==
    \E u \in Traders, o \in 1..BookOffers, amount \in BookAmounts :
        /\ InFlight < 1
        /\ Len(trades) < MaxTrades
        /\ AcceptOfferStart(u, o, amount)

DoCancelTradeBook ==
    \E u \in Users, t \in 1..MaxTrades :
        /\ InFlight < 1
        /\ CancelTradeStart(u, t)

NextBook ==
    \/ DoAddBalanceBook
    \/ DoCreateOfferBook \/ RunCreateOfferDebit \/ RunCreateOfferInsert
    \/ DoCancelOfferBook \/ RunCancelOfferCredit \/ RunCancelOfferUpdate
    \/ DoAcceptOfferBook
    \/ RunAcceptOfferDebit \/ RunAcceptOfferInsert \/ RunAcceptOfferDecrement
    \/ DoMarkPaid(1)
    \/ DoCancelTradeBook \/ RunCancelTradeRestore \/ RunCancelTradeUpdate

SpecBook == Init /\ [][NextBook]_vars

\* the arbiter: a trade is set up and disputed one request at a time, and
\* several resolutions of the dispute may then be in flight at once
NextArbiter ==
    \/ DoAddBalance(1)
    \/ DoCreateOffer(1) \/ RunCreateOfferDebit \/ RunCreateOfferInsert
    \/ DoAcceptOffer(1)
    \/ RunAcceptOfferDebit \/ RunAcceptOfferInsert \/ RunAcceptOfferDecrement
    \/ DoMarkPaid(1)
    \/ DoOpenDispute(1) \/ RunOpenDisputeInsert \/ RunOpenDisputeUpdate
    \/ DoResolveDispute(MaxSlots)
    \/ StepDispute

SpecArbiter == Init /\ [][NextArbiter]_vars

\* disputes, one request at a time
NextCourt ==
    \/ DoAddBalance(1)
    \/ DoCreateOffer(1) \/ RunCreateOfferDebit \/ RunCreateOfferInsert
    \/ DoAcceptOffer(1)
    \/ RunAcceptOfferDebit \/ RunAcceptOfferInsert \/ RunAcceptOfferDecrement
    \/ DoMarkPaid(1)
    \/ DoOpenDispute(1) \/ RunOpenDisputeInsert \/ RunOpenDisputeUpdate
    \/ DoResolveDispute(1)
    \/ StepDispute

SpecCourt == Init /\ [][NextCourt]_vars

\* a trade's life before release, one request at a time: it is created,
\* marked paid, and cancelled by any user, and its offer may be withdrawn
NextTrade ==
    \/ DoAddBalance(1)
    \/ DoCreateOffer(1) \/ RunCreateOfferDebit \/ RunCreateOfferInsert
    \/ DoAcceptOffer(1)
    \/ RunAcceptOfferDebit \/ RunAcceptOfferInsert \/ RunAcceptOfferDecrement
    \/ DoMarkPaid(1)
    \/ DoCancelTradeBook \/ RunCancelTradeRestore \/ RunCancelTradeUpdate
    \/ DoCancelOffer(1) \/ RunCancelOfferCredit \/ RunCancelOfferUpdate

SpecTrade == Init /\ [][NextTrade]_vars

\* amounts below the scale of NUMERIC(20,8), one request at a time: the
\* amount columns of offers and trades round them, the balance column and
\* the handlers' arithmetic do not
DustFunds == {Q + Q \div 2}
DustAmounts == {Q \div 2, Q}

DoAddBalanceDust ==
    \E u \in Traders, amount \in DustFunds :
        /\ InFlight < 1
        /\ funded + amount <= 2 * MaxFund * Q
        /\ AddBalance(u, amount)

DoCreateOfferDust ==
    \E u \in Makers, type \in Sides, asset \in Assets, amount \in DustAmounts :
        /\ InFlight < 1
        /\ Len(offers) < MaxOffers
        /\ CreateOfferStart(u, type, asset, amount)

DoAcceptOfferDust ==
    \E u \in Takers, o \in 1..MaxOffers, amount \in DustAmounts :
        /\ InFlight < 1
        /\ Len(trades) < MaxTrades
        /\ AcceptOfferStart(u, o, amount)

NextDust ==
    \/ DoAddBalanceDust
    \/ DoCreateOfferDust \/ RunCreateOfferDebit \/ RunCreateOfferInsert
    \/ DoCancelOffer(1) \/ RunCancelOfferCredit \/ RunCancelOfferUpdate
    \/ DoAcceptOfferDust
    \/ RunAcceptOfferDebit \/ RunAcceptOfferInsert \/ RunAcceptOfferDecrement

SpecDust == Init /\ [][NextDust]_vars

\* the buyer's window: a trade is set up, marked paid and disputed, one
\* request at a time, while the clock runs through the end of the window
\* (server and store are taken to keep time in one zone)
WindowTimes == {DisputeWindow - 1, DisputeWindow, DisputeWindow + 1}

TickWindow == Tick(WindowTimes)

NextWindow ==
    \/ DoAddBalance(1)
    \/ DoCreateOffer(1) \/ RunCreateOfferDebit \/ RunCreateOfferInsert
    \/ DoAcceptOffer(1)
    \/ RunAcceptOfferDebit \/ RunAcceptOfferInsert \/ RunAcceptOfferDecrement
    \/ DoMarkPaid(1)
    \/ DoOpenDispute(1) \/ RunOpenDisputeInsert \/ RunOpenDisputeUpdate
    \/ TickWindow

SpecWindow == Init /\ [][NextWindow]_vars

\* a trade is set up one request at a time, and buyer and seller may then
\* both be raising a dispute at once
NextDuel ==
    \/ DoAddBalance(1)
    \/ DoCreateOffer(1) \/ RunCreateOfferDebit \/ RunCreateOfferInsert
    \/ DoAcceptOffer(1)
    \/ RunAcceptOfferDebit \/ RunAcceptOfferInsert \/ RunAcceptOfferDecrement
    \/ DoMarkPaid(1)
    \/ DoOpenDispute(MaxSlots) \/ RunOpenDisputeInsert \/ RunOpenDisputeUpdate

SpecDuel == Init /\ [][NextDuel]_vars

\* callers of any role: every user, party or not, calls the dispute and
\* release routes; SELL offers are posted; a trade is paid out once
DoOpenDisputeAny ==
    \E u \in Users, t \in 1..MaxTrades :
        /\ InFlight < 1
        /\ OpenDisputeStart(u, t)

DoCreateOfferSell ==
    \E u \in Makers, asset \in Assets, amount \in OfferAmounts :
        /\ InFlight < 1
        /\ Len(offers) < MaxOffers
        /\ CreateOfferStart(u, "SELL", asset, amount)

DoReleaseFirst ==
    \E u \in Users, t \in 1..MaxTrades :
        /\ InFlight < 1
        /\ Payouts(t) < 1
        /\ ReleaseStart(u, t)

\* every route that writes an offer or a trade, one request at a time, around
\* a single trade of a SELL offer
DoAcceptOfferOnce ==
    \E u \in Takers, o \in 1..MaxOffers, amount \in TradeAmounts :
        /\ InFlight < 1
        /\ Len(trades) < 1
        /\ AcceptOfferStart(u, o, amount)

NextFrame ==
    \/ DoAddBalance(1)
    \/ DoCreateOfferSell \/ RunCreateOfferDebit \/ RunCreateOfferInsert
    \/ DoCancelOffer(1) \/ RunCancelOfferCredit \/ RunCancelOfferUpdate
    \/ DoAcceptOfferOnce \/ RunAcceptOfferInsert \/ RunAcceptOfferDecrement
    \/ DoMarkPaid(1)
    \/ DoReleaseFirst \/ RunReleaseCredit \/ RunReleaseFinish
    \/ DoCancelTradeBook \/ RunCancelTradeRestore \/ RunCancelTradeUpdate
    \/ DoOpenDisputeAny \/ RunOpenDisputeInsert \/ RunOpenDisputeUpdate
    \/ DoResolveDispute(1)
    \/ RunResolveDisputeUpdate \/ RunResolveDisputeRead
    \/ RunResolveDisputeCredit \/ RunResolveDisputeFinish

SpecFrame == Init /\ [][NextFrame]_vars

\* the buyer marks a trade paid again and again, with or without an image,
\* one request at a time; the clock moves on once a trade is marked
Screenshots == {0, 1, 2}
PaidTimes == {1, 2}

DoMarkPaidProof ==
    \E u \in Traders, t \in 1..MaxTrades, payment_screenshot \in Screenshots :
        /\ InFlight < 1
        /\ MarkPaid(u, t, payment_screenshot)

TickPaid ==
    /\ \E t \in 1..Len(trades) : trades[t].status = "PAID_PENDING_RELEASE"
    /\ Tick(PaidTimes)

NextPaid ==
    \/ DoAddBalance(1)
    \/ DoCreateOffer(1) \/ RunCreateOfferDebit \/ RunCreateOfferInsert
    \/ DoAcceptOfferOnce
    \/ RunAcceptOfferDebit \/ RunAcceptOfferInsert \/ RunAcceptOfferDecrement
    \/ DoMarkPaidProof
    \/ DoCancelOffer(1) \/ RunCancelOfferCredit \/ RunCancelOfferUpdate
    \/ TickPaid

SpecPaid == Init /\ [][NextPaid]_vars

\* one SELL offer in FDA accepted in part, paid and released, one request at
\* a time: the maker is funded with the offer's amount, the fee rate is the
\* default or the one the admin sets
HappyOfferAmounts == {100 * Q}
HappyTradeAmounts == {100 * Q, 50 * Q, Q}
HappyFeeRates == {2}

DoAddBalanceHappy ==
    \E u \in Makers, amount \in HappyOfferAmounts :
        /\ InFlight < 1
        /\ funded < MaxFund * amount
        /\ AddBalance(u, amount)

DoPutFeeRateHappy ==
    \E value \in HappyFeeRates : InFlight < 1 /\ PutFeeRate(Admin, value)

DoCreateOfferHappy ==
    \E u \in Makers, amount \in HappyOfferAmounts :
        /\ InFlight < 1
        /\ Len(offers) < MaxOffers
        /\ CreateOfferStart(u, "SELL", "FDA", amount)

DoAcceptOfferHappy ==
    \E u \in Takers, o \in 1..MaxOffers, amount \in HappyTradeAmounts :
        /\ InFlight < 1
        /\ Len(trades) < MaxTrades
        /\ AcceptOfferStart(u, o, amount)

NextHappy ==
    \/ DoAddBalanceHappy \/ DoPutFeeRateHappy
    \/ DoCreateOfferHappy \/ RunCreateOfferDebit \/ RunCreateOfferInsert
    \/ DoAcceptOfferHappy \/ RunAcceptOfferInsert \/ RunAcceptOfferDecrement
    \/ DoMarkPaid(1) \/ DoReleaseFirst \/ RunReleaseCredit \/ RunReleaseFinish

SpecHappy == Init /\ [][NextHappy]_vars

\* the minimum holding: the admin sets holding_fda_amount, and the traders
\* post offers of any amount the route lets through, accept BUY offers and
\* send transfers, one request at a time
FloorAmounts == {Q}
FloorOfferAmounts == {-Q, 0, Q, 2 * Q}

DoPutHoldingAmount ==
    \E u \in Users, value \in FloorAmounts : InFlight < 1 /\ PutHoldingAmount(u, value)

DoAddBalanceFloor ==
    \E u \in Traders, amount \in FundAmounts :
        /\ InFlight < 1
        /\ funded + amount <= BookFund * Q
        /\ AddBalance(u, amount)

DoCreateOfferFloor ==
    \E u \in Makers, type \in Sides, amount \in FloorOfferAmounts :
        /\ InFlight < 1
        /\ Len(offers) < BookOffers
        /\ CreateOfferStart(u, type, "FDA", amount)

NextFloor ==
    \/ DoAddBalanceFloor \/ DoPutHoldingAmount
    \/ DoCreateOfferFloor \/ RunCreateOfferDebit \/ RunCreateOfferInsert
    \/ DoAcceptOffer(1)
    \/ RunAcceptOfferDebit \/ RunAcceptOfferInsert \/ RunAcceptOfferDecrement
    \/ DoTransfer(1) \/ RunTransferDebit \/ RunTransferCredit

SpecFloor == Init /\ [][NextFloor]_vars

\* bulk funding alone, one request at a time: amounts of either sign, for a
\* user who may not exist (0), with holding periods well formed, malformed,
\* in lower case, padded with a blank, and zero-padded beyond the column
ZeroPadded ==
    [i \in 1..(PeriodColumn + 2) |->
        IF i <= PeriodColumn THEN "0" ELSE IF i = PeriodColumn + 1 THEN "1" ELSE "M"]
FundingPeriods ==
    {<< >>, <<"1", "M">>, <<"1", "m">>, <<" ", "2", "M">>, <<"0", "M">>, <<"1", "Y">>,
     <<"M">>, ZeroPadded}
FundingAmounts == {-Q, 0, Q}

DoFdaTransferAny ==
    \E u \in Traders \cup {0}, amount \in FundingAmounts, holdingPeriod \in FundingPeriods :
        /\ InFlight < 1
        /\ funded + amount <= BookFund * Q
        /\ FdaTransferStart(u, amount, holdingPeriod)

NextFund ==
    \/ DoFdaTransferAny
    \/ RunFdaTransferCredit \/ RunFdaTransferHold
    \/ TickHold

SpecFund == Init /\ [][NextFund]_vars

\* offers in the ledger asset and in another one: a trade is set up, paid,
\* released by the seller or disputed and decided by the arbiter, one
\* request at a time
TradedAssets == {"FDA", "USDT"}

DoCreateOfferAsset ==
    \E u \in Makers, type \in Sides, asset \in TradedAssets, amount \in OfferAmounts :
        /\ InFlight < 1
        /\ Len(offers) < MaxOffers
        /\ CreateOfferStart(u, type, asset, amount)

NextAsset ==
    \/ DoAddBalance(1)
    \/ DoCreateOfferAsset \/ RunCreateOfferDebit \/ RunCreateOfferInsert
    \/ DoAcceptOfferOnce
    \/ RunAcceptOfferDebit \/ RunAcceptOfferInsert \/ RunAcceptOfferDecrement
    \/ DoMarkPaid(1)
    \/ DoReleaseFirst \/ RunReleaseCredit \/ RunReleaseFinish
    \/ DoOpenDisputeAny \/ RunOpenDisputeInsert \/ RunOpenDisputeUpdate
    \/ DoResolveDispute(1)
    \/ RunResolveDisputeUpdate \/ RunResolveDisputeRead
    \/ RunResolveDisputeCredit \/ RunResolveDisputeFinish

SpecAsset == Init /\ [][NextAsset]_vars

\* the buyer marks a trade paid, time passes between two requests, the buyer
\* marks it again and raises a dispute, one request at a time.  The clock
\* stands at 0 until a trade is marked, so every trade first became
\* PAID_PENDING_RELEASE at time 0.
TickMarked ==
    /\ InFlight = 0
    /\ \E t \in 1..Len(trades) : trades[t].status = "PAID_PENDING_RELEASE"
    /\ Tick(WindowTimes)

NextExtend ==
    \/ DoAddBalance(1)
    \/ DoCreateOffer(1) \/ RunCreateOfferDebit \/ RunCreateOfferInsert
    \/ DoAcceptOfferOnce
    \/ RunAcceptOfferDebit \/ RunAcceptOfferInsert \/ RunAcceptOfferDecrement
    \/ DoMarkPaid(1)
    \/ DoOpenDispute(1) \/ RunOpenDisputeInsert \/ RunOpenDisputeUpdate
    \/ TickMarked

SpecExtend == Init /\ [][NextExtend]_vars

\* one holding and its owner's SELL offers, one request at a time: the
\* holding is created at time 0 (the clock moves only once it exists and
\* between requests), and the admin, or another user, changes its period
UpdatePeriods == {<< >>, <<"2", "M">>, <<"0", "M">>}

DoFdaTransferOnce ==
    \E u \in Makers, amount \in FundAmounts, holdingPeriod \in HoldingPeriods :
        /\ InFlight < 1
        /\ funded < BookFund * Q
        /\ holdingPeriod # << >> => Len(holdings) < 1
        /\ FdaTransferStart(u, amount, holdingPeriod)

DoUpdateHoldingPeriod ==
    \E u \in Users, h \in 1..BookOffers, holdingPeriod \in UpdatePeriods :
        /\ InFlight < 1
        /\ UpdateHoldingPeriod(u, h, holdingPeriod)

TickHeld ==
    /\ InFlight = 0
    /\ holdings # << >>
    /\ Tick(HoldTimes)

NextRelock ==
    \/ DoFdaTransferOnce \/ RunFdaTransferCredit \/ RunFdaTransferHold
    \/ DoUpdateHoldingPeriod
    \/ DoCreateOfferSell \/ RunCreateOfferDebit \/ RunCreateOfferInsert
    \/ DoCancelOffer(1) \/ RunCancelOfferCredit \/ RunCancelOfferUpdate
    \/ TickHeld

SpecRelock == Init /\ [][NextRelock]_vars

\* ================================================================ claims
Quiescent == reqs = EmptyBag

\* C1: after any sequence or interleaving of ledger operations every user's
\* ledger balance is >= 0 (stated for the states the requests leave behind:
\* those with no request in flight).
C1_BalanceNonNegative == Quiescent => \A u \in Users : balances[u] >= 0

\* C1: the interleaved handlers have returned and left a balance below zero
C1_NegativeBalance == Quiescent /\ \E u \in Users : balances[u] < 0

\* C2: every OPEN offer satisfies 0 <= remaining <= amount (stated for the
\* states with no request in flight).
C2_RemainingWithinAmount ==
    Quiescent =>
        \A o \in 1..Len(offers) :
            offers[o].status = "OPEN" =>
                0 <= offers[o].remaining /\ offers[o].remaining <= offers[o].amount

\* C2: the handlers have returned and an OPEN offer's remaining is outside
\* the range [0, amount]
C2_RemainingOutOfRange ==
    /\ Quiescent
    /\ \E o \in 1..Len(offers) :
          /\ offers[o].status = "OPEN"
          /\ (offers[o].remaining < 0 \/ offers[o].remaining > offers[o].amount)

\* C3: COMPLETED and CANCELLED are terminal: once a trade has one of these
\* statuses no later step changes its status.
C3_TerminalStatesFinal ==
    [][\A t \in 1..Len(trades) :
          trades[t].status \in {"COMPLETED", "CANCELLED"} =>
              trades'[t].status = trades[t].status]_vars

\* C3: with no request in flight, a trade that was paid out (so it was
\* COMPLETED when its release returned) has another status
C3_CompletedLeft ==
    /\ Quiescent
    /\ \E t \in 1..Len(trades) :
          /\ Recorded(t) = 1
          /\ trades[t].fee_rate > 0
          /\ trades[t].status # "COMPLETED"

\* C4: over its whole life a trade's buyer is credited a payout at most once
\* and at most one transfer row is written for the trade.
C4_OnePayoutPerTrade == \A t \in 1..Len(trades) : Recorded(t) <= 1

\* C4: a trade paid out twice
C4_PaidTwice == \E t \in 1..Len(trades) : Recorded(t) = 2

\* what of offer o acceptors hold: the amounts of its trades not cancelled
Sold(o) ==
    SumSeq([t \in 1..Len(trades) |->
              IF trades[t].offer = o /\ trades[t].status # "CANCELLED"
              THEN trades[t].amount ELSE 0], Len(trades))

\* C5: of concurrent requests on one offer or trade at most one takes
\* effect: an offer is refunded to its maker at most once, and what was
\* refunded and what was sold never exceed together the offer's amount.
C5_NoDoubleRefund ==
    \A o \in 1..Len(offers) :
        /\ offers[o].refunds <= 1
        /\ offers[o].refunded + Sold(o) <= offers[o].amount

\* C5: an offer the maker was refunded for twice
C5_RefundedTwice == \E o \in 1..Len(offers) : offers[o].refunds = 2

\* C6: every operation is all-or-nothing.  With no request in flight: a
\* debit has its offer row (without offers the balances add up to what was
\* funded), a PENDING trade's amount is off its offer's remaining, and a
\* trade whose buyer was credited is COMPLETED.
C6_AllOrNothing ==
    Quiescent =>
        /\ offers = << >> => balances[1] + balances[2] + balances[Admin] = funded
        /\ \A t \in 1..Len(trades) :
              /\ trades[t].status = "PENDING" =>
                    offers[trades[t].offer].remaining + trades[t].amount
                        <= offers[trades[t].offer].amount
              /\ Recorded(t) >= 1 => trades[t].status = "COMPLETED"

\* C6: a request failed after its debit: the maker's funds are gone and no
\* offer row exists
C6_DebitedWithoutOffer ==
    /\ Quiescent
    /\ failed = 1
    /\ offers = << >>
    /\ transfers = EmptyBag
    /\ balances[1] + balances[2] + balances[Admin] < funded

\* C7: a DISPUTED trade changes status only by the last statement of
\* resolveDispute, to COMPLETED or CANCELLED; markPaid, release, cancel and
\* openDispute never move it, and after tradeAction = none it stays DISPUTED.
C7_DisputedLeavesByArbiter ==
    [][\A t \in 1..Len(trades) :
          (trades[t].status = "DISPUTED" /\ trades'[t].status # "DISPUTED") =>
              /\ trades'[t].status \in {"COMPLETED", "CANCELLED"}
              /\ \E r \in BagToSet(reqs) :
                    /\ At(r, "resolveDispute", "finish")
                    /\ disputes[r.id].trade = t]_vars

\* C7: a trade with a dispute row, hence DISPUTED when openDispute
\* returned, is PAID_PENDING_RELEASE again with no request in flight
C7_DisputedToPaid ==
    /\ Quiescent
    /\ \E d \in 1..Len(disputes) :
          trades[disputes[d].trade].status = "PAID_PENDING_RELEASE"

\* C8: a trade enters DISPUTED only from PAID_PENDING_RELEASE: openDispute on
\* a PENDING, COMPLETED or CANCELLED trade does not set DISPUTED.
C8_DisputedOnlyFromPaid ==
    [][\A t \in 1..Len(trades) :
          (trades[t].status # "DISPUTED" /\ trades'[t].status = "DISPUTED") =>
              trades[t].status = "PAID_PENDING_RELEASE"]_vars

\* C8: a DISPUTED trade that was never marked paid
C8_DisputedUnpaid ==
    \E t \in 1..Len(trades) : trades[t].status = "DISPUTED" /\ trades[t].paid_at < 0

\* C9: resolveDispute with tradeAction = release credits the buyer the payout
\* release would under the current p2p_fee_rate, and leaves the fee_amount
\* and fee_rate on the trade that release would.
C9_ResolveReleaseAsRelease ==
    [][\A r \in BagToSet(reqs) :
          LET t == disputes[r.id].trade
          IN  (r.op = "resolveDispute" /\ r.act = "release") =>
                /\ ResolveDisputeCredit(r) =>
                      balances'[trades[t].buyer] = balances[trades[t].buyer]
                          + AmountToBuyer(trades[t].amount, settings.p2p_fee_rate)
                /\ ResolveDisputeFinish(r) =>
                      /\ trades'[t].fee_amount =
                             Num8(Fee(trades[t].amount, settings.p2p_fee_rate))
                      /\ trades'[t].fee_rate = settings.p2p_fee_rate * PercentMicro]_vars

\* C9: a trade completed by the arbiter's release: paid out once, with no
\* fee recorded on it
C9_ResolvedWithoutFee ==
    /\ Quiescent
    /\ \E t \in 1..Len(trades) :
          /\ trades[t].status = "COMPLETED"
          /\ Recorded(t) = 1
          /\ trades[t].fee_rate = 0

\* C10: release of a trade of amount a under p2p_fee_rate = r credits the
\* buyer a - a*r/100, leaves the balance of a seller who is not the buyer
\* unchanged, and records fee_amount = a*r/100, so that payout + fee_amount
\* = a and 0 <= fee_amount <= a.
C10_ReleasePayoutAndFee ==
    [][\A r \in BagToSet(reqs) :
          LET a == trades[r.id].amount
              buyer == trades[r.id].buyer
              seller == trades[r.id].seller
          IN  r.op = "release" =>
                /\ ReleaseCredit(r) =>
                      /\ balances'[buyer] = balances[buyer] + (a - (a * r.aux) \div 100)
                      /\ seller # buyer => balances'[seller] = balances[seller]
                /\ ReleaseFinish(r) =>
                      /\ trades'[r.id].fee_amount = (a * r.aux) \div 100
                      /\ r.amt + trades'[r.id].fee_amount = a
                      /\ 0 <= trades'[r.id].fee_amount
                      /\ trades'[r.id].fee_amount <= a]_vars

\* C10: a released trade between two users whose payout and recorded
\* fee_amount do not add up to its amount
C10_FeeRoundedAway ==
    \E t \in 1..Len(trades), x \in BagToSet(transfers) :
        /\ x.trade = t
        /\ trades[t].buyer # trades[t].seller
        /\ trades[t].status = "COMPLETED"
        /\ trades[t].fee_rate > 0
        /\ x.amount = AmountToBuyer(trades[t].amount, trades[t].fee_rate \div PercentMicro)
        /\ x.amount + trades[t].fee_amount # trades[t].amount

\* C11: while a user has unexpired holdings totalling H, no debit of a
\* createOffer(SELL), of an acceptOffer of a BUY offer or of a direct
\* transfer by that user leaves the user's balance below H.
C11_HeldFundsNotSpent ==
    [][\A r \in BagToSet(reqs) :
          (CreateOfferDebit(r) \/ AcceptOfferDebit(r) \/ TransferDebit(r)) =>
              balances'[r.actor] >= HoldingLocked(r.actor)]_vars

\* C11: a direct transfer has been sent out of a balance that an unexpired
\* holding covers entirely
C11_HeldFundsTransferred ==
    /\ Quiescent
    /\ \E u \in Users, x \in BagToSet(transfers) :
          /\ x.from = u /\ x.trade = 0
          /\ HoldingLocked(u) > 0
          /\ balances[u] < HoldingLocked(u)

\* C12: funds committed to an open SELL offer are counted once: the maker's
\* balance is already reduced by each open offer, so with no holding and a
\* holding floor of 0 a further SELL offer of any amount up to that balance
\* is accepted.
C12_OpenOfferCountedOnce ==
    [][\A u \in Makers, a \in OfferAmounts :
          (/\ CreateOfferStart(u, "SELL", "FDA", a)
           /\ InFlight = 0
           /\ HoldingLocked(u) = 0 /\ settings.holding_fda_amount = 0
           /\ 0 < a /\ a <= balances[u])
          => reqs' # reqs]_vars

\* C12: the usable balance that the handlers compute for a maker with an open
\* SELL offer, no holding and no holding floor is the balance less the
\* offer's remaining, although the balance was debited when the offer was
\* posted
C12_OfferCountedTwice ==
    /\ Quiescent
    /\ \E u \in Makers :
          /\ Locked(u) > 0 /\ balances[u] > 0
          /\ HoldingLocked(u) = 0 /\ settings.holding_fda_amount = 0
          /\ UsableBalance(u) = balances[u] - Locked(u)

\* C13: every trade has buyer_id different from seller_id: acceptOffer by
\* the offer's own maker never creates a trade.
C13_BuyerIsNotSeller ==
    \A t \in 1..Len(trades) : trades[t].buyer # trades[t].seller

\* C13: the maker has accepted the maker's own offer and the trade row names
\* the maker on both sides
C13_SelfTrade ==
    \E t \in 1..Len(trades) :
        /\ trades[t].buyer = offers[trades[t].offer].maker
        /\ trades[t].seller = offers[trades[t].offer].maker

\* C14: a dispute leaves OPEN at most once: every resolveDispute that records
\* an outcome finds the dispute OPEN, also when two calls are in flight, and
\* so the trade action is applied at most once.
C14_ResolvedOnce ==
    [][\A r \in BagToSet(reqs) :
          ResolveDisputeUpdate(r) => disputes[r.id].status = "OPEN"]_vars

\* C14: two resolutions of one dispute have both returned and each has paid
\* the trade out to the buyer
C14_ResolvedTwice ==
    /\ Quiescent
    /\ \E d \in 1..Len(disputes) :
          /\ disputes[d].status \in Outcomes
          /\ Recorded(disputes[d].trade) >= 2

C17_CreateThenCancel ==
    (/\ Quiescent
     /\ Len(trades) = 0
     /\ \A o \in 1..Len(offers) : offers[o].status = "CANCELLED")
    => SumSeq([u \in 1..3 |-> balances[u]], 3) = funded

\* C17: a SELL offer was posted and cancelled with no trade made, and the
\* maker's balance differs from what the maker paid in
C17_RoundTripChangedBalance ==
    /\ Quiescent
    /\ Len(trades) = 0
    /\ \E o \in 1..Len(offers) :
          /\ offers[o].type = "SELL" /\ offers[o].status = "CANCELLED"
          /\ offers[o].refunds = 1
          /\ balances[offers[o].maker] # funded

\* C18: openDispute by the buyer of a PAID_PENDING_RELEASE trade (that has no
\* dispute yet) is taken up, inserts the dispute and sets the trade DISPUTED
\* when now <= paid_at + 2 hours, and is refused, with no dispute created and
\* the status unchanged, when now > paid_at + 2 hours.
C18_BuyerWindow ==
    [][/\ \A t \in 1..Len(trades) :
             (/\ OpenDisputeStart(trades[t].buyer, t)
              /\ trades[t].status = "PAID_PENDING_RELEASE"
              /\ ~HasDispute(t))
             => IF now <= trades[t].paid_at + DisputeWindow
                THEN reqs' # reqs
                ELSE /\ reqs' = reqs /\ resp' = 400
                     /\ UNCHANGED <<disputes, trades>>
       /\ \A r \in BagToSet(reqs) :
             /\ OpenDisputeInsert(r)
                => /\ Len(disputes') = Len(disputes) + 1
                   /\ disputes'[Len(disputes')].trade = r.id
                   /\ disputes'[Len(disputes')].status = "OPEN"
             /\ OpenDisputeUpdate(r) => trades'[r.id].status = "DISPUTED"]_vars

\* C18: the buyer has disputed a paid trade and the clock shows the last
\* minute of the window, paid_at + 2 hours
C18_DisputedInWindow ==
    /\ Quiescent
    /\ \E d \in 1..Len(disputes) :
          LET t == disputes[d].trade
          IN  /\ disputes[d].raised_by = trades[t].buyer
              /\ trades[t].status = "DISPUTED"
              /\ trades[t].paid_at >= 0
              /\ now = trades[t].paid_at + DisputeWindow

\* C19: at most one dispute row exists per trade, also after two concurrent
\* openDispute calls; an openDispute by a party of a trade that already has
\* a dispute is refused and changes neither the disputes nor the trade, and
\* so does the INSERT of the call that lost a race.
C19_OneDisputePerTrade ==
    [][/\ \A t \in 1..Len(trades) :
             Cardinality({d \in 1..Len(disputes') : disputes'[d].trade = t}) <= 1
       /\ \A t \in 1..Len(trades), u \in Users :
             (OpenDisputeStart(u, t) /\ HasDispute(t)
              /\ u \in {trades[t].buyer, trades[t].seller})
             => /\ reqs' = reqs /\ resp' = 400
                /\ UNCHANGED <<disputes, trades>>
       /\ \A r \in BagToSet(reqs) :
             (OpenDisputeInsert(r) /\ HasDispute(r.id))
             => /\ resp' >= 400 /\ CopiesIn(r, reqs') = CopiesIn(r, reqs) - 1
                /\ UNCHANGED <<disputes, trades>>]_vars

\* C19: buyer and seller raised a dispute on one trade at once: both passed
\* the existing-dispute check, one INSERT was refused, and the trade has its
\* single dispute
C19_RaceLost ==
    /\ Quiescent
    /\ resp = 500
    /\ \E t \in 1..Len(trades) :
          /\ trades[t].status = "DISPUTED"
          /\ Cardinality({d \in 1..Len(disputes) : disputes[d].trade = t}) = 1

\* C20: a successful acceptOffer creates exactly one PENDING trade of the
\* accepted amount and reduces the offer's remaining by exactly that amount;
\* on a SELL offer the acceptor is the buyer, the maker the seller, and no
\* balance changes; on a BUY offer in FDA the acceptor is the seller, passes
\* the usable-balance check and is debited exactly the amount; acceptOffer
\* on an offer that is not OPEN, or for more than remaining, is refused and
\* changes nothing.
C20_AcceptOffer ==
    [][/\ \A u \in Users, o \in 1..Len(offers), a \in DustAmounts \cup BookAmounts :
             (AcceptOfferStart(u, o, a)
              /\ (offers[o].status # "OPEN" \/ a > offers[o].remaining))
             => reqs' = reqs /\ resp' >= 400
       /\ \A r \in BagToSet(reqs) :
             LET o == r.id
                 sell == offers[o].type = "SELL"
             IN  /\ AcceptOfferDebit(r)
                    => /\ ~sell
                       /\ UsableBalance(r.actor) >= r.amt
                       /\ balances' = [balances EXCEPT ![r.actor] = @ - r.amt]
                 /\ AcceptOfferInsert(r)
                    => /\ Len(trades') = Len(trades) + 1
                       /\ trades'[Len(trades')].amount = r.amt
                       /\ trades'[Len(trades')].status = "PENDING"
                       /\ trades'[Len(trades')].buyer =
                              (IF sell THEN r.actor ELSE offers[o].maker)
                       /\ trades'[Len(trades')].seller =
                              (IF sell THEN offers[o].maker ELSE r.actor)
                       /\ UNCHANGED balances
                 /\ AcceptOfferDecrement(r)
                    => /\ offers'[o].remaining = offers[o].remaining - r.amt
                       /\ UNCHANGED <<balances, trades>>]_vars

\* C20: an acceptOffer has succeeded and left a PENDING trade while the
\* offer's remaining still equals the offer's amount
C20_TradeWithoutDecrement ==
    /\ Quiescent
    /\ \E t \in 1..Len(trades) :
          /\ trades[t].status = "PENDING"
          /\ offers[trades[t].offer].remaining = offers[trades[t].offer].amount
          /\ trades[t].amount > 0

\* C21: an operation called by an actor without the required role, or on a
\* row in the wrong state, is refused and leaves every balance, offer,
\* trade, dispute and transfer unchanged: release by anyone but the seller or
\* on a trade that is not PAID_PENDING_RELEASE, cancelOffer by anyone but the
\* maker or on an offer that is not OPEN, markPaid by anyone but the buyer,
\* trade cancel or openDispute by a user who is neither buyer nor seller.
C21_RefusedChangesNothing ==
    [][LET Refused == /\ reqs' = reqs /\ resp' >= 400
                      /\ UNCHANGED <<balances, offers, trades, disputes, transfers>>
       IN  /\ \A u \in Users, t \in 1..Len(trades) :
                 /\ ((u # trades[t].seller \/ trades[t].status # "PAID_PENDING_RELEASE")
                     /\ ReleaseStart(u, t))
                    => Refused
                 /\ (u # trades[t].buyer /\ MarkPaid(u, t, 0)) => Refused
                 /\ (u \notin {trades[t].buyer, trades[t].seller}
                     /\ (CancelTradeStart(u, t) \/ OpenDisputeStart(u, t)))
                    => Refused
           /\ \A u \in Users, o \in 1..Len(offers) :
                 ((u # offers[o].maker \/ offers[o].status # "OPEN")
                  /\ CancelOfferStart(u, o))
                 => Refused]_vars

\* C21: a user without the required role has just been refused on a trade
\* that is marked paid
C21_Forbidden ==
    /\ Quiescent
    /\ resp = 403
    /\ \E t \in 1..Len(trades) : trades[t].status = "PAID_PENDING_RELEASE"

\* C22: an offer's status changes only from OPEN to CANCELLED and only by
\* cancelOffer; an offer's remaining is decreased only by acceptOffer and
\* increased only by a trade's cancel, so cancelOffer, markPaid, release,
\* openDispute and resolveDispute leave remaining unchanged.
C22_OfferFrame ==
    [][\A o \in 1..Len(offers) :
          /\ offers'[o].status # offers[o].status
             => /\ offers[o].status = "OPEN" /\ offers'[o].status = "CANCELLED"
                /\ \E r \in BagToSet(reqs) : CancelOfferUpdate(r) /\ r.id = o
          /\ offers'[o].remaining < offers[o].remaining
             => \E r \in BagToSet(reqs) : AcceptOfferDecrement(r) /\ r.id = o
          /\ offers'[o].remaining > offers[o].remaining
             => \E r \in BagToSet(reqs) : CancelTradeRestore(r) /\ trades[r.id].offer = o]_vars

\* C22: an offer has been cancelled after one of its trades was completed
\* and its remaining is what acceptOffer left
C22_CancelledAfterTrade ==
    /\ Quiescent
    /\ \E t \in 1..Len(trades) :
          /\ trades[t].status = "COMPLETED"
          /\ offers[trades[t].offer].status = "CANCELLED"
          /\ offers[trades[t].offer].remaining =
                 offers[trades[t].offer].amount - trades[t].amount


\* C23: mark-paid by the buyer on a trade that is PENDING or already
\* PAID_PENDING_RELEASE leaves it PAID_PENDING_RELEASE, sets paid_at to the
\* time of this call and the proof to the one sent, and changes nothing else:
\* the trade's other fields, the other trades, every offer and every balance
\* stay as they were.  Any number of calls from PENDING thus ends in the
\* status that one call gives.
C23_MarkPaidAgain ==
    [][\A t \in 1..Len(trades), s \in Screenshots :
          (/\ trades[t].status \in {"PENDING", "PAID_PENDING_RELEASE"}
           /\ MarkPaid(trades[t].buyer, t, s))
          => /\ trades' = [trades EXCEPT ![t].status = "PAID_PENDING_RELEASE",
                                         ![t].paid_at = now,
                                         ![t].payment_screenshot = s]
             /\ UNCHANGED <<balances, offers, disputes, transfers>>]_vars

\* a trade marked paid a second time: the clock only moves once the trade
\* is marked, and paid_at shows a later time with another proof
C23_MarkedTwice ==
    /\ Quiescent
    /\ \E t \in 1..Len(trades) :
          /\ trades[t].status = "PAID_PENDING_RELEASE"
          /\ trades[t].paid_at = 2
          /\ trades[t].payment_screenshot = 2


\* C24: on the happy path of a SELL offer of amount A (posted, accepted for
\* a <= A, marked paid, released at fee rate r percent) the trade is
\* COMPLETED with fee_amount = a*r/100, the offer is still OPEN with
\* remaining = A - a, the buyer's balance is higher by a*(1 - r/100), the
\* maker's balance is lower by A, and exactly one transfer seller -> buyer of
\* the buyer's credit is recorded.
C24_HappyPath ==
    (Quiescent /\ Len(offers) = 1 /\ Len(trades) = 1 /\ trades[1].status = "COMPLETED")
    => LET a == trades[1].amount
           r == trades[1].fee_rate \div PercentMicro
       IN  /\ trades[1].fee_amount * 100 = a * r
           /\ offers[1].status = "OPEN"
           /\ offers[1].remaining = offers[1].amount - a
           /\ balances[trades[1].buyer] * 100 = a * (100 - r)
           /\ balances[trades[1].seller] = funded - offers[1].amount
           /\ transfers = SetToBag({TransferRow(trades[1].seller, trades[1].buyer,
                                                balances[trades[1].buyer], 1)})

\* a completed trade whose recorded fee is not the fee withheld from the buyer
C24_FeeNotRecorded ==
    /\ Quiescent /\ Len(trades) = 1 /\ trades[1].status = "COMPLETED"
    /\ trades[1].fee_amount + balances[trades[1].buyer] # trades[1].amount

\* the same path holds to the letter when a*r/100 has at most 8 decimals
C24_HappyPathExact ==
    /\ Quiescent /\ Len(offers) = 1 /\ Len(trades) = 1 /\ trades[1].status = "COMPLETED"
    /\ trades[1].amount = 50 * Q /\ trades[1].fee_rate = 2 * PercentMicro
    /\ trades[1].fee_amount = Q
    /\ offers[1].status = "OPEN" /\ offers[1].remaining = 50 * Q
    /\ balances[trades[1].buyer] = 49 * Q
    /\ balances[trades[1].seller] = 0
    /\ BagCardinality(transfers) = 1


\* C25: with the setting holding_fda_amount = F, the debit of every accepted
\* createOffer(SELL), acceptOffer of a BUY offer and direct transfer, run
\* with no other request in flight, leaves the caller's ledger balance >= F.
C25_FloorKept ==
    [][\A r \in BagToSet(reqs) :
          (CreateOfferDebit(r) \/ AcceptOfferDebit(r) \/ TransferDebit(r))
          => balances'[r.actor] >= settings.holding_fda_amount]_vars

\* the maker holds less than the minimum after posting a SELL offer of a
\* positive amount
C25_BelowFloor ==
    /\ Quiescent /\ resp = 200
    /\ settings.holding_fda_amount = Q
    /\ \E o \in 1..Len(offers) :
          /\ o = Len(offers)
          /\ offers[o].type = "SELL" /\ offers[o].amount > 0
          /\ balances[offers[o].maker] < Q
    /\ transfers = EmptyBag /\ trades = << >>


\* C26: a bulk funding call with amount <= 0, or with a holding period that
\* is not a positive number of months followed by M (read without regard to
\* case and surrounding blanks), is refused and changes no balance and no
\* holding; an accepted call raises the user's balance by exactly the amount,
\* and adds exactly one holding if a period was given and none otherwise.
C26_BulkFunding ==
    [][LET WellFormed(p) ==
               LET q == Trim(ToUpperCase(p))
               IN  MatchesMonths(q) /\ \E i \in 1..(Len(q) - 1) : q[i] # "0"
       IN  /\ \A u \in Traders, amount \in FundingAmounts, p \in FundingPeriods :
                 (/\ amount <= 0 \/ (p # << >> /\ ~WellFormed(p))
                  /\ FdaTransferStart(u, amount, p))
                 => /\ resp' = 400 /\ reqs' = reqs
                    /\ UNCHANGED <<balances, holdings>>
           /\ \A r \in BagToSet(reqs) :
                 /\ FdaTransferCredit(r)
                    => /\ balances' = [balances EXCEPT ![r.id] = @ + r.amt]
                       /\ holdings' = holdings
                       /\ r.aux < 0 => resp' = 200
                 /\ FdaTransferHold(r)
                    => /\ Len(holdings') = Len(holdings) + 1
                       /\ balances' = balances
                       /\ resp' = 200]_vars

\* a call with a period was answered 500: the balance is credited and no
\* holding exists
C26_CreditedWithoutHolding ==
    /\ Quiescent /\ resp = 500
    /\ funded = Q /\ balances[1] = Q
    /\ holdings = << >>


\* C27: in every reachable state, under any interleaving, the sum of all
\* ledger balances is at most the total credited by the funding operations
\* (add-balance and bulk funding): no operation creates money.
C27_NoMoneyCreated == SumSeq(balances, Admin) <= funded

\* the balances add up to more than was ever funded, with no request in flight
C27_MoneyCreated ==
    /\ Quiescent
    /\ SumSeq(balances, Admin) > funded


\* C28: the buyer's credit by release or by resolveDispute(release) is
\* backed by an earlier debit of the trade's seller.  The seller is debited
\* (the maker of a SELL offer when posting, the acceptor of a BUY offer when
\* accepting) only for an offer in the ledger asset FDA, so: the payout of a
\* trade whose asset is not FDA increases no ledger balance.
C28_CreditsBacked ==
    [][\A r \in BagToSet(reqs) :
          LET t == IF r.op = "release" THEN r.id ELSE disputes[r.id].trade
          IN  (/\ r.op \in {"release", "resolveDispute"}
               /\ ReleaseCredit(r) \/ ResolveDisputeCredit(r)
               /\ offers[trades[t].offer].asset # "FDA")
              => balances' = balances]_vars

\* a trade in another asset is COMPLETED, nobody was ever funded, and its
\* buyer holds FDA
C28_PaidFromNothing ==
    /\ Quiescent /\ funded = 0
    /\ \E t \in 1..Len(trades) :
          /\ trades[t].status = "COMPLETED"
          /\ offers[trades[t].offer].asset = "USDT"
          /\ balances[trades[t].buyer] > 0


\* C29: a successful createOffer never increases the maker's ledger balance
\* and stores an offer with amount > 0 and remaining = amount; a SELL offer
\* with a zero or negative amount is refused and changes nothing.
C29_CreateOffer ==
    [][/\ \A r \in BagToSet(reqs) :
             CreateOfferDebit(r) => balances'[r.actor] <= balances[r.actor]
       /\ Len(offers') > Len(offers)
          => /\ offers'[Len(offers')].amount > 0
             /\ offers'[Len(offers')].remaining = offers'[Len(offers')].amount
       /\ \A u \in Makers, amount \in FloorOfferAmounts :
             (amount <= 0 /\ CreateOfferStart(u, "SELL", "FDA", amount))
             => /\ resp' >= 400 /\ reqs' = reqs
                /\ UNCHANGED <<balances, offers>>]_vars

\* a SELL offer of a negative amount is stored, and its maker, never funded,
\* holds FDA
C29_NegativeOffer ==
    /\ Quiescent /\ funded = 0
    /\ \E o \in 1..Len(offers) :
          /\ offers[o].type = "SELL" /\ offers[o].amount < 0
          /\ offers[o].remaining = offers[o].amount
          /\ balances[offers[o].maker] = -offers[o].amount


\* C30: no escrow is stranded for a SELL offer in the ledger asset: once the
\* offer is CANCELLED and each of its trades is COMPLETED or CANCELLED, the
\* offer's amount equals what was credited back to the maker plus the
\* amounts of its COMPLETED trades, in whichever order the offer and its
\* trades were cancelled.
C30_NoEscrowStranded ==
    \A o \in 1..Len(offers) :
        LET Completed == SumSeq([t \in 1..Len(trades) |->
                            IF trades[t].offer = o /\ trades[t].status = "COMPLETED"
                            THEN trades[t].amount ELSE 0], Len(trades))
        IN  (/\ Quiescent
             /\ offers[o].type = "SELL" /\ offers[o].asset = "FDA"
             /\ offers[o].status = "CANCELLED"
             /\ \A t \in 1..Len(trades) :
                   trades[t].offer = o => trades[t].status \in {"COMPLETED", "CANCELLED"})
            => offers[o].amount = offers[o].refunded + Completed

\* the offer was cancelled while its trade was pending and the trade was
\* cancelled afterwards: the maker got nothing back, nothing was sold, and
\* the amount sits in the remaining of a CANCELLED offer
C30_Stranded ==
    /\ Quiescent
    /\ \E o \in 1..Len(offers) :
          /\ offers[o].type = "SELL" /\ offers[o].status = "CANCELLED"
          /\ offers[o].refunded = 0
          /\ offers[o].remaining = offers[o].amount
          /\ \E t \in 1..Len(trades) : trades[t].offer = o
          /\ \A t \in 1..Len(trades) : trades[t].offer = o => trades[t].status = "CANCELLED"
          /\ balances[offers[o].maker] = funded - offers[o].amount


\* C31: when resolveDispute with trade_action release (respectively cancel)
\* answers success, the dispute's trade is COMPLETED (respectively CANCELLED)
\* afterwards: a dispute is never closed with the requested trade action
\* silently left out.
C31_ActionApplied ==
    [][\A r \in BagToSet(reqs) :
          (/\ r.op = "resolveDispute" /\ r.act \in {"release", "cancel"}
           /\ ResolveDisputeUpdate(r) \/ ResolveDisputeRead(r) \/ ResolveDisputeFinish(r)
           /\ BagCardinality(reqs') < BagCardinality(reqs)
           /\ resp' = 200)
          => trades'[disputes[r.id].trade].status =
                IF r.act = "release" THEN "COMPLETED" ELSE "CANCELLED"]_vars

\* the arbiter's release has closed the dispute and is about to read a trade
\* that is no longer DISPUTED: it will answer success and leave the trade
C31_ActionSkipped ==
    \E r \in BagToSet(reqs) :
        /\ r.op = "resolveDispute" /\ r.pc = "trade" /\ r.act = "release"
        /\ disputes[r.id].status = "RESOLVED"
        /\ trades[disputes[r.id].trade].status = "PAID_PENDING_RELEASE"


C33_Transfer ==
    [][/\ \A r \in BagToSet(reqs) :
             /\ TransferDebit(r)
                => /\ balances' = [balances EXCEPT ![r.actor] = @ - r.amt]
                   /\ transfers' = transfers
             /\ TransferCredit(r)
                => /\ balances' = [balances EXCEPT ![r.id] = @ + r.amt]
                   /\ transfers' = transfers (+) SetToBag({TransferRow(r.actor, r.id, r.amt, 0)})
                   /\ resp' = 200
       /\ \A u \in Traders, to \in Traders, amount \in SendAmounts :
             (/\ \/ to = u \/ amount <= 0 \/ to \notin Users
                 \/ balances[u] < amount \/ UsableBalance(u) < amount
              /\ TransferStart(u, to, amount))
             => /\ resp' >= 400 /\ reqs' = reqs
                /\ UNCHANGED <<balances, transfers>>]_vars

\* a transfer was accepted for a sender whose usable balance, unexpired
\* holdings counted, was below the amount
C33_SentBeyondUsable ==
    \E r \in BagToSet(reqs) :
        /\ r.op = "transfer" /\ r.pc = "debit"
        /\ balances[r.actor] >= r.amt
        /\ UsableBalance(r.actor) < r.amt
        /\ HoldingLocked(r.actor) > 0


\* C34: a successful update of a holding's period sets its expires_at to
\* the time of the update plus the new number of months, whatever its
\* creation time and previous expires_at were, and changes nothing else; the
\* holding's amount counts against the usable balance of a new SELL offer
\* exactly while expires_at is in the future, so an expired holding is
\* locked again by the update.
C34_UpdateHoldingPeriod ==
    [][/\ \A h \in 1..Len(holdings) :
             (UpdateHoldingPeriod(Admin, h, <<"2", "M">>))
             => /\ holdings' = [holdings EXCEPT ![h].expires_at = now + 2 * MonthMinutes]
                /\ resp' = 200
                /\ balances' = balances
       /\ \A u \in Makers, amount \in OfferAmounts :
             LET Held == SumSeq([i \in 1..Len(holdings) |->
                            IF holdings[i].user = u /\ holdings[i].expires_at > now
                            THEN holdings[i].amount ELSE 0], Len(holdings))
             IN  CreateOfferStart(u, "SELL", "FDA", amount)
                 => (BagCardinality(reqs') > BagCardinality(reqs)
                     <=> /\ balances[u] >= amount
                         /\ balances[u] - Locked(u) - settings.holding_fda_amount - Held
                               >= amount)]_vars

\* past the first month of a holding created at time 0, the admin has given
\* it two months: it ends two months after that update, not after its
\* creation or its earlier expiry, and locks its owner's whole balance
C34_LockedAgain ==
    /\ Quiescent
    /\ now = MonthMinutes + 1
    /\ \E h \in 1..Len(holdings) :
          /\ holdings[h].expires_at = now + 2 * MonthMinutes
          /\ balances[holdings[h].user] = holdings[h].amount
          /\ UsableBalance(holdings[h].user) = 0

====
